---------------------------- MODULE Spec2Model ----------------------------
(***************************************************************************)
(* Model of the jazz-improvisation MCP server: the olog loader (the        *)
(* knowledge store), the enhancer (the profile synthesizer and the prompt  *)
(* formatter) and the tool implementations of server.py.                   *)
(*                                                                         *)
(* Representation.                                                         *)
(*  - A Python str that the code case-folds, tests with startswith or      *)
(*    concatenates into a key (a phase name) is a sequence of one-letter   *)
(*    strings, so that lower(), startswith() and + are computed.           *)
(*  - A descriptive text is a sequence of string pieces; an f-string is    *)
(*    the concatenation of its pieces.  Foundation names and fixed         *)
(*    messages, which the code only compares or copies, are TLA+ strings.  *)
(*  - None is the empty sequence, a dict is a function on its keys.        *)
(*  - A Python float is an integer number of tenths.  Every float the      *)
(*    code computes is a sum of an integer and an integer multiple of      *)
(*    0.1, 0.2, 0.3, 0.4, 0.8 or 1.5; for intensity levels 1..10 and       *)
(*    severities 1..10 the IEEE double results compare (<, >) and round    *)
(*    exactly as the decimal values do (the halves 2.5, 5.5, 6.5, 7.5,     *)
(*    9.5 and the integers 4.0, 9.0 are computed exactly).  Python's       *)
(*    round() of a float rounds a half to the even integer.                *)
(*  - An uncaught Python exception is the value Raised(type).              *)
(***************************************************************************)
EXTENDS Integers, Sequences, FiniteSets, TLC

VARIABLES
    yaml_files,                 \* the two configuration documents on disk
    categorical_structure,      \* enhancer.olog.categorical_structure
    intentionality_reasoning,   \* enhancer.olog.intentionality_reasoning
    loads,                      \* how many times _load_ologs has run
    pc,                         \* "idle", or "pending" while a call is in flight
    request,                    \* the tool call in flight, or the last one handled
    response                    \* the result of the last call handled

vars == <<yaml_files, categorical_structure, intentionality_reasoning,
          loads, pc, request, response>>

(***************************************************************************)
(* Bounds of the model.                                                    *)
(***************************************************************************)
\* intensity_level arguments range over (1 - BelowRange)..(10 + AboveRange)
BelowRange == 1
AboveRange == 1
\* at most MaxLoads executions of _load_ologs are followed in one run
MaxLoads == 2

(***************************************************************************)
(* Python values.                                                          *)
(***************************************************************************)
None == <<>>

Raised(type) == [raised |-> type]

AttributeError == Raised("AttributeError")

TypeError == Raised("TypeError")

IsRaised(v) == v = AttributeError \/ v = TypeError

\* dict.get(key) and dict.get(key, default)
DictGet(d, k) == IF k \in DOMAIN d THEN d[k] ELSE None

DictGetDefault(d, k, default) == IF k \in DOMAIN d THEN d[k] ELSE default

UpperLetters == <<"A", "B", "C", "D", "E", "F", "G", "H", "I", "J", "K", "L", "M",
                  "N", "O", "P", "Q", "R", "S", "T", "U", "V", "W", "X", "Y", "Z">>

LowerLetters == <<"a", "b", "c", "d", "e", "f", "g", "h", "i", "j", "k", "l", "m",
                  "n", "o", "p", "q", "r", "s", "t", "u", "v", "w", "x", "y", "z">>

LowerMap ==
    [c \in {UpperLetters[i] : i \in 1..26} |->
        LowerLetters[CHOOSE i \in 1..26 : UpperLetters[i] = c]]

LowerChar(c) == IF c \in DOMAIN LowerMap THEN LowerMap[c] ELSE c

\* str.lower()
lower(s) == [i \in 1..Len(s) |-> LowerChar(s[i])]

\* str.startswith(prefix)
startswith(s, prefix) ==
    /\ Len(s) >= Len(prefix)
    /\ SubSeq(s, 1, Len(prefix)) = prefix

\* a rounding that takes every half upwards
round_HalfUp(t) == (t + 5) \div 10

\* round(x) of a float x given in tenths: to the nearest integer, a half to
\* the even one
round(t) ==
    LET q == t \div 10
        r == t % 10
    IN  IF r > 5 \/ (r = 5 /\ q % 2 = 1) THEN q + 1 ELSE q

min(a, b) == IF a <= b THEN a ELSE b

max(a, b) == IF a >= b THEN a ELSE b

(***************************************************************************)
(* Phase names and keys, letter by letter.                                 *)
(***************************************************************************)
K_statement == <<"s", "t", "a", "t", "e", "m", "e", "n", "t">>

K_development == <<"d", "e", "v", "e", "l", "o", "p", "m", "e", "n", "t">>

K_resolution == <<"r", "e", "s", "o", "l", "u", "t", "i", "o", "n">>

K_phase_ == <<"p", "h", "a", "s", "e", "_">>

K_phase_1_statement == K_phase_ \o <<"1", "_">> \o K_statement

K_phase_2_development == K_phase_ \o <<"2", "_">> \o K_development

K_phase_3_resolution == K_phase_ \o <<"3", "_">> \o K_resolution

K_phase_intent == <<"_", "p", "h", "a", "s", "e", "_", "i", "n", "t", "e", "n", "t">>

K_sensory_bridge == <<"s", "e", "n", "s", "o", "r", "y", "_", "b", "r", "i", "d", "g", "e">>

K_monk_visual_sensory_intention ==
    <<"m", "o", "n", "k", "_", "v", "i", "s", "u", "a", "l", "_",
      "s", "e", "n", "s", "o", "r", "y", "_", "i", "n", "t", "e", "n", "t", "i", "o", "n">>


(***************************************************************************)
(* The two configuration documents.  They are data files of the package    *)
(* (categorical_structure.yaml, intentionality_reasoning.yaml) read by     *)
(* _load_ologs; their content is taken from the specification's data model *)
(* and from what the tests read out of them.                               *)
(***************************************************************************)
ComplexityClasses == {"angular_chromatic", "bebop_dense", "modal_repetition", "lyrical_simple"}

FoundationNames == <<"Round Midnight", "Evidence", "Epistrophy", "Ask Me Now">>

\* a catalog entry; the descriptive fields are opaque texts
FoundationRecord(name, complexity, essence) ==
    [name |-> name,
     complexity |-> complexity,
     key_center |-> <<"key_center of ", name>>,
     characteristic |-> <<"characteristic of ", name>>,
     monk_essence |-> essence]

\* the catalogs the documents may hold: Round Midnight is angular_chromatic and
\* canonical, Evidence is bebop_dense, the classes of the other two are open
Catalogs ==
    {<<FoundationRecord(FoundationNames[1], "angular_chromatic", TRUE),
       FoundationRecord(FoundationNames[2], "bebop_dense", FALSE),
       FoundationRecord(FoundationNames[3], c3, FALSE),
       FoundationRecord(FoundationNames[4], c4, FALSE)>> :
        c3 \in {"modal_repetition", "lyrical_simple"},
        c4 \in {"modal_repetition", "lyrical_simple"}}

\* a phase record; the descriptive fields are opaque texts
PhaseRecord(phase) ==
    [narrative_role |-> <<"narrative_role of ", phase>>,
     sensory_intention |-> <<"sensory_intention of ", phase>>,
     visual_analog |-> <<"visual_analog of ", phase>>,
     how_it_feels |-> <<"how_it_feels of ", phase>>,
     what_happens_musically |-> <<"what_happens_musically of ", phase>>]

MonkIntentRecord(phase) ==
    [sonic |-> <<"sonic of ", phase>>,
     visual_equivalent |-> <<"visual_equivalent of ", phase>>]

PrincipleNames == {"constraint_as_liberation", "silence_as_structure",
                   "rhythmic_displacement", "dissonance_as_truth"}

PrincipleRecord(name) ==
    [statement |-> <<"statement of ", name>>,
     manifests_as |-> <<"manifests_as of ", name>>,
     visual_principle |-> <<"visual_principle of ", name>>]

CategoricalDocument(catalog) ==
    [types |-> [harmonic_foundation |-> [instances |-> catalog]],
     morphisms |-> [statement_development_resolution |->
                        [k \in {K_statement, K_development, K_resolution} |->
                            [intensity_profile |-> <<"intensity_profile">>]]],
     natural_transformations |-> <<"natural_transformations">>,
     monk_anchor_principles |-> [n \in PrincipleNames |-> PrincipleRecord(n)]]

IntentionalityDocument ==
    (K_phase_1_statement :> PhaseRecord("statement")) @@
    (K_phase_2_development :> PhaseRecord("development")) @@
    (K_phase_3_resolution :> PhaseRecord("resolution")) @@
    (K_sensory_bridge :> [bridge |-> <<"sensory_bridge">>]) @@
    (K_monk_visual_sensory_intention :>
        ((K_statement \o K_phase_intent :> MonkIntentRecord("statement")) @@
         (K_development \o K_phase_intent :> MonkIntentRecord("development")) @@
         (K_resolution \o K_phase_intent :> MonkIntentRecord("resolution"))))

YamlFiles == {[categorical_structure |-> CategoricalDocument(c),
               intentionality_reasoning |-> IntentionalityDocument] : c \in Catalogs}

(***************************************************************************)
(* olog_loader.py: JazzImprovisationOlog.  An olog is the record of its    *)
(* two loaded documents.                                                   *)
(***************************************************************************)
\* JazzImprovisationOlog(): __init__ and _load_ologs read both documents
JazzImprovisationOlog(files) ==
    [categorical_structure |-> files.categorical_structure,
     intentionality_reasoning |-> files.intentionality_reasoning]

get_harmonic_foundations(olog) ==
    olog.categorical_structure.types.harmonic_foundation.instances

\* the first entry whose name equals the argument, or None
get_harmonic_foundation(olog, name) ==
    LET instances == get_harmonic_foundations(olog)
        hits == {i \in 1..Len(instances) : instances[i].name = name}
    IN  IF hits = {} THEN None
        ELSE instances[CHOOSE i \in hits : \A j \in hits : i <= j]

get_natural_transformations(olog) == olog.categorical_structure.natural_transformations

get_monk_principles(olog) == olog.categorical_structure.monk_anchor_principles

PhaseKeyMap ==
    (K_statement :> K_phase_1_statement) @@
    (K_development :> K_phase_2_development) @@
    (K_resolution :> K_phase_3_resolution)

get_phase_specification(olog, phase_name) ==
    IF startswith(phase_name, K_phase_)
    THEN DictGet(olog.intentionality_reasoning, phase_name)
    ELSE LET phase_key == DictGetDefault(PhaseKeyMap, lower(phase_name),
                                         K_phase_ \o lower(phase_name))
         IN  DictGet(olog.intentionality_reasoning, phase_key)

get_monk_visual_intention(olog) ==
    DictGet(olog.intentionality_reasoning, K_monk_visual_sensory_intention)

\* the rules tried in the opposite order
validate_intensity_profile_Reordered(olog, intensity_dict) ==
    IF /\ DictGetDefault(intensity_dict, "beat_relationship", 50) > 70
       /\ DictGetDefault(intensity_dict, "harmonic_complexity", 5) < 4
    THEN <<FALSE, "Behind-the-beat playing needs harmonic complexity for anchor">>
    ELSE IF /\ DictGetDefault(intensity_dict, "harmonic_complexity", 5) > 7
            /\ DictGetDefault(intensity_dict, "melodic_singularity", 5) < 6
    THEN <<FALSE, "High harmonic complexity requires high melodic singularity">>
    ELSE IF /\ DictGetDefault(intensity_dict, "note_density", 5) > 6
            /\ DictGetDefault(intensity_dict, "rest_space", 5) < 6
    THEN <<FALSE, "High note density requires high rest space for legibility">>
    ELSE <<TRUE, "Intensity profile is coherent">>

\* the pair (valid, message): the three rules in order, the first failing wins
validate_intensity_profile(olog, intensity_dict) ==
    IF /\ DictGetDefault(intensity_dict, "note_density", 5) > 6
       /\ DictGetDefault(intensity_dict, "rest_space", 5) < 6
    THEN <<FALSE, "High note density requires high rest space for legibility">>
    ELSE IF /\ DictGetDefault(intensity_dict, "harmonic_complexity", 5) > 7
            /\ DictGetDefault(intensity_dict, "melodic_singularity", 5) < 6
    THEN <<FALSE, "High harmonic complexity requires high melodic singularity">>
    ELSE IF /\ DictGetDefault(intensity_dict, "beat_relationship", 50) > 70
            /\ DictGetDefault(intensity_dict, "harmonic_complexity", 5) < 4
    THEN <<FALSE, "Behind-the-beat playing needs harmonic complexity for anchor">>
    ELSE <<TRUE, "Intensity profile is coherent">>

get_phase_intensity_profile(olog, phase_name) ==
    LET morphism == olog.categorical_structure.morphisms.statement_development_resolution
        phase_key == lower(phase_name)
    IN  IF phase_key \in DOMAIN morphism THEN morphism[phase_key].intensity_profile
        ELSE None

(***************************************************************************)
(* enhancer.py: JazzImprovisationEnhancer.  The enhancer holds one olog,   *)
(* loaded when the enhancer is constructed.                                *)
(***************************************************************************)
ComplexityMap ==
    [c \in ComplexityClasses |->
        CASE c = "angular_chromatic" -> 9
          [] c = "bebop_dense" -> 8
          [] c = "modal_repetition" -> 4
          [] c = "lyrical_simple" -> 3]

\* hf.get on None raises AttributeError
_harmonic_complexity_from_foundation(hf) ==
    IF hf = None THEN AttributeError
    ELSE DictGetDefault(ComplexityMap, DictGet(hf, "complexity"), 5)

\* the development formulas with the sign of the density slope lost
BaseProfile_Falling(phase, intensity_level) ==
    IF lower(phase) = K_statement
    THEN [note_density |-> 20 + intensity_level * 1,
          rhythmic_subdivision |-> 20 + intensity_level * 1,
          harmonic_complexity_actual |-> 10 + intensity_level * 1,
          rest_space |-> 70 - intensity_level * 2]
    ELSE IF lower(phase) = K_development
    THEN [note_density |-> 50 - intensity_level * 3,
          rhythmic_subdivision |-> 50 + intensity_level * 3,
          harmonic_complexity_actual |-> 60 + intensity_level * 3,
          rest_space |-> 40 + intensity_level * 4]
    ELSE IF lower(phase) = K_resolution
    THEN [note_density |-> 30 + intensity_level * 2,
          rhythmic_subdivision |-> 30 + intensity_level * 2,
          harmonic_complexity_actual |-> 30 + intensity_level * 2,
          rest_space |-> 60 - intensity_level * 1]
    ELSE [note_density |-> 50,
          rhythmic_subdivision |-> 50,
          harmonic_complexity_actual |-> 60,
          rest_space |-> 50]

\* the development and the resolution formulas exchanged
BaseProfile_Swapped(phase, intensity_level) ==
    IF lower(phase) = K_statement
    THEN [note_density |-> 20 + intensity_level * 1,
          rhythmic_subdivision |-> 20 + intensity_level * 1,
          harmonic_complexity_actual |-> 10 + intensity_level * 1,
          rest_space |-> 70 - intensity_level * 2]
    ELSE IF lower(phase) = K_resolution
    THEN [note_density |-> 50 + intensity_level * 3,
          rhythmic_subdivision |-> 50 + intensity_level * 3,
          harmonic_complexity_actual |-> 60 + intensity_level * 3,
          rest_space |-> 40 + intensity_level * 4]
    ELSE IF lower(phase) = K_development
    THEN [note_density |-> 30 + intensity_level * 2,
          rhythmic_subdivision |-> 30 + intensity_level * 2,
          harmonic_complexity_actual |-> 30 + intensity_level * 2,
          rest_space |-> 60 - intensity_level * 1]
    ELSE [note_density |-> 50,
          rhythmic_subdivision |-> 50,
          harmonic_complexity_actual |-> 60,
          rest_space |-> 50]

\* a development phase whose rest barely grows with the level
BaseProfile_DenseNoRest(phase, intensity_level) ==
    IF lower(phase) = K_statement
    THEN [note_density |-> 20 + intensity_level * 1,
          rhythmic_subdivision |-> 20 + intensity_level * 1,
          harmonic_complexity_actual |-> 10 + intensity_level * 1,
          rest_space |-> 70 - intensity_level * 2]
    ELSE IF lower(phase) = K_development
    THEN [note_density |-> 50 + intensity_level * 3,
          rhythmic_subdivision |-> 50 + intensity_level * 3,
          harmonic_complexity_actual |-> 60 + intensity_level * 3,
          rest_space |-> 40 + intensity_level * 1]
    ELSE IF lower(phase) = K_resolution
    THEN [note_density |-> 30 + intensity_level * 2,
          rhythmic_subdivision |-> 30 + intensity_level * 2,
          harmonic_complexity_actual |-> 30 + intensity_level * 2,
          rest_space |-> 60 - intensity_level * 1]
    ELSE [note_density |-> 50,
          rhythmic_subdivision |-> 50,
          harmonic_complexity_actual |-> 60,
          rest_space |-> 50]

\* an unrecognized phase given the development formulas
BaseProfile_DefaultDevelopment(phase, intensity_level) ==
    IF lower(phase) = K_statement
    THEN [note_density |-> 20 + intensity_level * 1,
          rhythmic_subdivision |-> 20 + intensity_level * 1,
          harmonic_complexity_actual |-> 10 + intensity_level * 1,
          rest_space |-> 70 - intensity_level * 2]
    ELSE IF lower(phase) = K_resolution
    THEN [note_density |-> 30 + intensity_level * 2,
          rhythmic_subdivision |-> 30 + intensity_level * 2,
          harmonic_complexity_actual |-> 30 + intensity_level * 2,
          rest_space |-> 60 - intensity_level * 1]
    ELSE [note_density |-> 50 + intensity_level * 3,
          rhythmic_subdivision |-> 50 + intensity_level * 3,
          harmonic_complexity_actual |-> 60 + intensity_level * 3,
          rest_space |-> 40 + intensity_level * 4]

\* the four formula-driven dimensions of a phase, in tenths
BaseProfile(phase, intensity_level) ==
    IF lower(phase) = K_statement
    THEN [note_density |-> 20 + intensity_level * 1,
          rhythmic_subdivision |-> 20 + intensity_level * 1,
          harmonic_complexity_actual |-> 10 + intensity_level * 1,
          rest_space |-> 70 - intensity_level * 2]
    ELSE IF lower(phase) = K_development
    THEN [note_density |-> 50 + intensity_level * 3,
          rhythmic_subdivision |-> 50 + intensity_level * 3,
          harmonic_complexity_actual |-> 60 + intensity_level * 3,
          rest_space |-> 40 + intensity_level * 4]
    ELSE IF lower(phase) = K_resolution
    THEN [note_density |-> 30 + intensity_level * 2,
          rhythmic_subdivision |-> 30 + intensity_level * 2,
          harmonic_complexity_actual |-> 30 + intensity_level * 2,
          rest_space |-> 60 - intensity_level * 1]
    ELSE [note_density |-> 50,
          rhythmic_subdivision |-> 50,
          harmonic_complexity_actual |-> 60,
          rest_space |-> 50]

\* the emphasis taking rest away instead of adding it
ApplyMonkEmphasis_LessRest(base, harmonic_complexity, monk_emphasis) ==
    IF monk_emphasis
    THEN [base EXCEPT
            !.rest_space = min(100, base.rest_space - 15),
            !.harmonic_complexity_actual =
                IF base.harmonic_complexity_actual < harmonic_complexity * 10
                THEN harmonic_complexity * 8
                ELSE base.harmonic_complexity_actual]
    ELSE base

\* the override taken also when the phase value equals the severity
ApplyMonkEmphasis_OrEqual(base, harmonic_complexity, monk_emphasis) ==
    IF monk_emphasis
    THEN [base EXCEPT
            !.rest_space = min(100, base.rest_space + 15),
            !.harmonic_complexity_actual =
                IF base.harmonic_complexity_actual <= harmonic_complexity * 10
                THEN harmonic_complexity * 8
                ELSE base.harmonic_complexity_actual]
    ELSE base

\* the Monk emphasis: more rest, and the foundation's severity when the phase
\* value is below it
ApplyMonkEmphasis(base, harmonic_complexity, monk_emphasis) ==
    IF monk_emphasis
    THEN [base EXCEPT
            !.rest_space = min(100, base.rest_space + 15),
            !.harmonic_complexity_actual =
                IF base.harmonic_complexity_actual < harmonic_complexity * 10
                THEN harmonic_complexity * 8
                ELSE base.harmonic_complexity_actual]
    ELSE base

\* the slopes 3 and 2 in place of 0.3 and 0.2
BeatRelationship_Steep(intensity_level, monk_emphasis) ==
    IF ~monk_emphasis THEN 50 + intensity_level * 30 ELSE 70 + intensity_level * 20

\* beat_relationship rounded like the other dimensions
BeatRelationship_Rounded(intensity_level, monk_emphasis) ==
    IF ~monk_emphasis THEN round(50 + intensity_level * 3) * 10
    ELSE round(70 + intensity_level * 2) * 10

\* beat_relationship, a float (in tenths) that is neither rounded nor clamped
BeatRelationship(intensity_level, monk_emphasis) ==
    IF ~monk_emphasis THEN 50 + intensity_level * 3 ELSE 70 + intensity_level * 2

\* a melodic_singularity of 5 at the higher levels
ClampedProfile_LowSingularity(adjusted, intensity_level, monk_emphasis) ==
    [note_density |-> min(10, max(1, round(adjusted.note_density))),
     rhythmic_subdivision |-> min(10, max(1, round(adjusted.rhythmic_subdivision))),
     harmonic_complexity |-> min(10, max(1, round(adjusted.harmonic_complexity_actual))),
     melodic_singularity |-> IF intensity_level < 5 THEN 8 ELSE 5,
     rest_space |-> min(10, max(1, round(adjusted.rest_space))),
     beat_relationship |-> BeatRelationship(intensity_level, monk_emphasis)]

\* the dict built at "Clamp to 1-10 range"
ClampedProfile(adjusted, intensity_level, monk_emphasis) ==
    [note_density |-> min(10, max(1, round(adjusted.note_density))),
     rhythmic_subdivision |-> min(10, max(1, round(adjusted.rhythmic_subdivision))),
     harmonic_complexity |-> min(10, max(1, round(adjusted.harmonic_complexity_actual))),
     melodic_singularity |-> IF intensity_level < 5 THEN 8 ELSE 6,
     rest_space |-> min(10, max(1, round(adjusted.rest_space))),
     beat_relationship |-> BeatRelationship(intensity_level, monk_emphasis)]

\* a validation that repairs the profile it finds incoherent
WithCoherence_Repairing(profile, validation) ==
    [k \in DOMAIN profile \cup {"coherence_valid", "coherence_note"} |->
        IF k = "coherence_valid" THEN validation[1]
        ELSE IF k = "coherence_note" THEN validation[2]
        ELSE IF k = "harmonic_complexity" /\ ~validation[1] THEN 4
        ELSE profile[k]]

WithCoherence(profile, validation) ==
    [k \in DOMAIN profile \cup {"coherence_valid", "coherence_note"} |->
        IF k = "coherence_valid" THEN validation[1]
        ELSE IF k = "coherence_note" THEN validation[2]
        ELSE profile[k]]

_build_intensity_profile(olog, phase, intensity_level, harmonic_complexity, monk_emphasis) ==
    LET base == BaseProfile(phase, intensity_level)
        adjusted == ApplyMonkEmphasis(base, harmonic_complexity, monk_emphasis)
        profile == ClampedProfile(adjusted, intensity_level, monk_emphasis)
    IN  WithCoherence(profile, validate_intensity_profile(olog, profile))

get_all_phases == <<K_statement, K_development, K_resolution>>

\* the descriptor phrases of a phase; an unrecognized phase gets development's
PhaseKeywords(enhancement, solo_phase) ==
    LET statement == <<
            <<"sharp focus, established baseline">>,
            <<"clarity entering, defined edges">>,
            <<"foundational structure, reference point">>,
            <<"harmonic foundation of ", enhancement.harmonic_foundation, " clarity">> >>
        development == <<
            <<"layering, complexity emerging from pattern">>,
            <<"density increasing yet coherent">>,
            <<"revealed structure within apparent chaos">>,
            <<"intense exploration within constraint">>,
            <<"patterns visible through texture">>,
            <<"exploring ">> \o enhancement.harmonic_characteristic,
            <<"mastery accumulating through variation">> >>
        resolution == <<
            <<"clarity restored, pattern now visible">>,
            <<"complexity synthesized into unified whole">>,
            <<"earned knowledge integrated">>,
            <<"precision and confidence">>,
            <<"returning to ", enhancement.harmonic_foundation, " with understanding">> >>
    IN  IF lower(solo_phase) = K_statement THEN statement
        ELSE IF lower(solo_phase) = K_resolution THEN resolution
        ELSE development

IntensityDesc ==
    [i \in 1..10 |->
        CASE i = 1 -> "minimal, sparse"
          [] i = 2 -> "restrained, foundational"
          [] i = 3 -> "subtle, emergent"
          [] i = 4 -> "modest, controlled"
          [] i = 5 -> "balanced, moderate"
          [] i = 6 -> "building, intensifying"
          [] i = 7 -> "complex, layered"
          [] i = 8 -> "dense, intricate"
          [] i = 9 -> "extreme, maximum variation"
          [] i = 10 -> "total saturation, complete exploration"]

_synthesize_prompt(base_prompt, enhancement, solo_phase, intensity_level) ==
    LET keywords == PhaseKeywords(enhancement, solo_phase)
        intensity_word == DictGetDefault(IntensityDesc, intensity_level, "moderate")
        enhanced ==
            base_prompt \o <<", with the sensory character of a jazz solo in the ">>
            \o solo_phase \o <<" phase: ">> \o enhancement.how_it_feels
            \o <<". Visual treatment: ">> \o keywords[1] \o <<", ">> \o keywords[2]
            \o <<". Intensity profile: ", intensity_word>>
            \o <<". The image should feel like it's ">> \o enhancement.sensory_intention
            \o <<". Visual analog: ">> \o enhancement.visual_analog \o <<". ">>
    IN  IF DictGet(enhancement, "monk_visual_principle") # None
        THEN enhanced \o <<"Monk principle: ">> \o enhancement.monk_visual_principle \o <<" ">>
        ELSE enhanced

\* the level used as given
ValidatedLevel_Unclamped(intensity_level) == intensity_level

\* intensity_level as the handler uses it after its input validation
ValidatedLevel(intensity_level) ==
    IF intensity_level < 1 \/ intensity_level > 10
    THEN max(1, min(10, intensity_level))
    ELSE intensity_level

\* the lookup without the substitution of the default
ResolvedFoundation_NoFallback(olog, harmonic_foundation) ==
    get_harmonic_foundation(olog, harmonic_foundation)

\* the foundation the handler resolves: the named one, or Round Midnight
ResolvedFoundation(olog, harmonic_foundation) ==
    IF get_harmonic_foundation(olog, harmonic_foundation) = None
    THEN get_harmonic_foundation(olog, "Round Midnight")
    ELSE get_harmonic_foundation(olog, harmonic_foundation)

\* an unmapped phase resolved to the statement record
ResolvedPhaseSpec_DefaultStatement(olog, solo_phase) ==
    LET phase_key == DictGetDefault(PhaseKeyMap, lower(solo_phase), K_phase_1_statement)
    IN  IF get_phase_specification(olog, phase_key) = None
        THEN get_phase_specification(olog, K_phase_2_development)
        ELSE get_phase_specification(olog, phase_key)

\* the phase record the handler resolves: the mapped one, or development's
ResolvedPhaseSpec(olog, solo_phase) ==
    LET phase_key == DictGetDefault(PhaseKeyMap, lower(solo_phase), K_phase_2_development)
    IN  IF get_phase_specification(olog, phase_key) = None
        THEN get_phase_specification(olog, K_phase_2_development)
        ELSE get_phase_specification(olog, phase_key)

\* the enhancement dict, with the Monk principles when emphasized and present
EnhancementParameters(olog, hf, solo_phase, phase_spec, intensity_profile, monk_emphasis) ==
    LET enhancement ==
            [harmonic_foundation |-> hf.name,
             harmonic_characteristic |-> hf.characteristic,
             solo_phase |-> solo_phase,
             phase_intention |-> DictGet(phase_spec, "narrative_role"),
             sensory_intention |-> DictGet(phase_spec, "sensory_intention"),
             intensity_profile |-> intensity_profile,
             visual_analog |-> DictGetDefault(phase_spec, "visual_analog",
                                              <<"layering and coherence">>),
             how_it_feels |-> DictGetDefault(phase_spec, "how_it_feels",
                                             <<"knowledge unfolding">>)]
        monk_visual == get_monk_visual_intention(olog)
        phase_key == lower(solo_phase) \o K_phase_intent
    IN  IF monk_emphasis /\ phase_key \in DOMAIN monk_visual
        THEN [k \in DOMAIN enhancement \cup {"monk_visual_principle", "monk_sonic_principle"} |->
                IF k = "monk_visual_principle" THEN monk_visual[phase_key].visual_equivalent
                ELSE IF k = "monk_sonic_principle" THEN monk_visual[phase_key].sonic
                ELSE enhancement[k]]
        ELSE enhancement

enhance_prompt_with_jazz_structure(olog, base_prompt, harmonic_foundation, solo_phase, intensity_level_arg, monk_emphasis) ==
    LET intensity_level == ValidatedLevel(intensity_level_arg)
        hf == ResolvedFoundation(olog, harmonic_foundation)
        phase_spec == ResolvedPhaseSpec(olog, solo_phase)
        severity == _harmonic_complexity_from_foundation(hf)
        intensity_profile ==
            _build_intensity_profile(olog, solo_phase, intensity_level, severity, monk_emphasis)
        enhancement == EnhancementParameters(olog, hf, solo_phase, phase_spec,
                                             intensity_profile, monk_emphasis)
    IN  IF hf = None THEN severity
        ELSE IF phase_spec = None THEN AttributeError
        ELSE [original_prompt |-> base_prompt,
              enhanced_prompt |-> _synthesize_prompt(base_prompt, enhancement,
                                                     solo_phase, intensity_level),
              harmonic_foundation |-> hf.name,
              solo_phase |-> solo_phase,
              intensity_profile |-> intensity_profile,
              sensory_intention |-> DictGet(phase_spec, "sensory_intention"),
              visual_analog |-> enhancement.visual_analog,
              how_it_feels |-> enhancement.how_it_feels,
              monk_principles |-> DictGet(enhancement, "monk_visual_principle"),
              coherence_note |-> <<"This enhancement maintains the ">> \o solo_phase
                                 \o <<" phase character: ">> \o DictGet(phase_spec, "narrative_role"),
              temporal_note |-> "This visual should feel like it unfolds through time"]

get_all_harmonic_foundations(olog) == get_harmonic_foundations(olog)

\* the comparison built without the emphasis
compare_phases_intensity_NoEmphasis(olog, harmonic_foundation) ==
    LET hf == get_harmonic_foundation(olog, harmonic_foundation)
        severity == _harmonic_complexity_from_foundation(hf)
    IN  IF hf = None THEN severity
        ELSE [phase \in {get_all_phases[i] : i \in 1..Len(get_all_phases)} |->
                _build_intensity_profile(olog, phase, 5, severity, FALSE)]

\* monk_emphasis is left at its default, True; a foundation that is not in the
\* catalog is passed on as None
compare_phases_intensity(olog, harmonic_foundation) ==
    LET hf == get_harmonic_foundation(olog, harmonic_foundation)
        severity == _harmonic_complexity_from_foundation(hf)
    IN  IF hf = None THEN severity
        ELSE [phase \in {get_all_phases[i] : i \in 1..Len(get_all_phases)} |->
                _build_intensity_profile(olog, phase, 5, severity, TRUE)]

(***************************************************************************)
(* server.py: the module-level enhancer and the tool implementations.      *)
(***************************************************************************)
\* enhancer.olog, the olog loaded when the server module is imported
EnhancerOlog ==
    [categorical_structure |-> categorical_structure,
     intentionality_reasoning |-> intentionality_reasoning]

FoundationSummary(f) ==
    [name |-> f.name,
     complexity |-> f.complexity,
     key_center |-> f.key_center,
     characteristic |-> f.characteristic,
     monk_essence |-> DictGetDefault(f, "monk_essence", FALSE)]

list_harmonic_foundations_result(olog) ==
    LET foundations == get_all_harmonic_foundations(olog)
    IN  [foundations |-> [i \in 1..Len(foundations) |-> FoundationSummary(foundations[i])]]

\* the lookup's miss not tested: subscripting None raises TypeError
get_harmonic_foundation_details_result_Unchecked(olog, foundation_name) ==
    LET foundation == get_harmonic_foundation(olog, foundation_name)
    IN  IF foundation = None THEN TypeError ELSE FoundationSummary(foundation)

get_harmonic_foundation_details_result(olog, foundation_name) ==
    LET foundation == get_harmonic_foundation(olog, foundation_name)
    IN  IF foundation = None
        THEN [error |-> <<"Foundation '", foundation_name, "' not found">>]
        ELSE FoundationSummary(foundation)

get_phase_specification_result(olog, phase_name) ==
    LET phase_spec == get_phase_specification(olog, phase_name)
    IN  IF phase_spec = None
        THEN [error |-> <<"Phase '">> \o phase_name
                        \o <<"' not found. Valid phases: statement, development, resolution">>]
        ELSE [phase |-> phase_name,
              narrative_role |-> DictGet(phase_spec, "narrative_role"),
              sensory_intention |-> DictGet(phase_spec, "sensory_intention"),
              what_happens_musically |-> DictGet(phase_spec, "what_happens_musically")]

ProfileSubset(profile) ==
    [note_density |-> profile.note_density,
     rhythmic_subdivision |-> profile.rhythmic_subdivision,
     harmonic_complexity |-> profile.harmonic_complexity,
     melodic_singularity |-> profile.melodic_singularity,
     rest_space |-> profile.rest_space]

compare_phases_intensity_result(olog, harmonic_foundation) ==
    LET profiles == compare_phases_intensity(olog, harmonic_foundation)
    IN  IF IsRaised(profiles) THEN profiles
        ELSE [harmonic_foundation |-> harmonic_foundation,
              phase_comparison |-> [phase \in DOMAIN profiles |-> ProfileSubset(profiles[phase])]]

get_monk_principles_result(olog) ==
    LET principles == get_monk_principles(olog)
    IN  [principles |-> [name \in DOMAIN principles |->
                            [statement |-> DictGet(principles[name], "statement"),
                             manifests_as |-> DictGet(principles[name], "manifests_as")]]]

(***************************************************************************)
(* The arguments the host calls the tools with (the inputSchema of each    *)
(* tool: required properties, and optional ones that may be left out).     *)
(***************************************************************************)
Prompts == {<<"a bottle of hot sauce">>, <<"test">>}

FoundationArgs == {FoundationNames[i] : i \in 1..Len(FoundationNames)} \cup {"Blue Monk"}

DetailFoundationArgs == FoundationArgs \cup {"round midnight"}

K_Statement == <<"S">> \o Tail(K_statement)

K_bridge == <<"b", "r", "i", "d", "g", "e">>

PhaseArgs == {K_statement, K_development, K_resolution, K_Statement, K_bridge}

DetailPhaseArgs ==
    PhaseArgs \cup {SubSeq(K_phase_1_statement, 7, Len(K_phase_1_statement)),
                    K_phase_3_resolution,
                    K_phase_ \o K_bridge,
                    K_sensory_bridge}

LevelArgs == (1 - BelowRange)..(10 + AboveRange)

ToolNames == {"enhance_prompt_with_jazz", "list_harmonic_foundations",
              "get_harmonic_foundation_details", "get_phase_specification",
              "compare_phases_intensity", "get_monk_principles"}

NoArguments == <<>>

\* the arguments objects that hold exactly the required properties of a tool
RequiredArguments(tool) ==
    CASE tool = "enhance_prompt_with_jazz" -> {[base_prompt |-> p] : p \in Prompts}
      [] tool = "get_harmonic_foundation_details" ->
            {[foundation_name |-> n] : n \in DetailFoundationArgs}
      [] tool = "get_phase_specification" -> {[phase_name |-> n] : n \in DetailPhaseArgs}
      [] OTHER -> {NoArguments}

OptionalProperties(tool) ==
    CASE tool = "enhance_prompt_with_jazz" ->
            {"harmonic_foundation", "solo_phase", "intensity_level", "monk_emphasis"}
      [] tool = "compare_phases_intensity" -> {"harmonic_foundation"}
      [] OTHER -> {}

PropertyValues(key) ==
    CASE key = "harmonic_foundation" -> FoundationArgs
      [] key = "solo_phase" -> PhaseArgs
      [] key = "intensity_level" -> LevelArgs
      [] key = "monk_emphasis" -> BOOLEAN

(***************************************************************************)
(* The state machine: the import of server.py, then tool calls.  A call    *)
(* is composed by the host, then handled by call_tool's branch for it.     *)
(***************************************************************************)
Init ==
    /\ yaml_files \in YamlFiles
    /\ categorical_structure = JazzImprovisationOlog(yaml_files).categorical_structure
    /\ intentionality_reasoning = JazzImprovisationOlog(yaml_files).intentionality_reasoning
    /\ loads = 1
    /\ pc = "idle"
    /\ request = [tool |-> "import", arguments |-> NoArguments]
    /\ response = None

\* the host starts a call with the required arguments
host_call(tool, arguments) ==
    /\ pc = "idle"
    /\ pc' = "pending"
    /\ request' = [tool |-> tool, arguments |-> arguments]
    /\ response' = None
    /\ UNCHANGED <<yaml_files, categorical_structure, intentionality_reasoning, loads>>

\* the host adds one optional argument to the call
host_argument(key, value) ==
    /\ pc = "pending"
    /\ key \in OptionalProperties(request.tool)
    /\ key \notin DOMAIN request.arguments
    /\ request' = [request EXCEPT !.arguments = (key :> value) @@ request.arguments]
    /\ UNCHANGED <<yaml_files, categorical_structure, intentionality_reasoning,
                   loads, pc, response>>

\* a default level that is read from the state of the process
impl_enhance_prompt_with_jazz_result_Counting(arguments) ==
    enhance_prompt_with_jazz_structure(
        EnhancerOlog,
        arguments.base_prompt,
        DictGetDefault(arguments, "harmonic_foundation", "Round Midnight"),
        DictGetDefault(arguments, "solo_phase", K_development),
        DictGetDefault(arguments, "intensity_level", 4 + loads),
        DictGetDefault(arguments, "monk_emphasis", TRUE))

\* impl_enhance_prompt_with_jazz(**arguments), with the defaults of its signature
impl_enhance_prompt_with_jazz_result(arguments) ==
    enhance_prompt_with_jazz_structure(
        EnhancerOlog,
        arguments.base_prompt,
        DictGetDefault(arguments, "harmonic_foundation", "Round Midnight"),
        DictGetDefault(arguments, "solo_phase", K_development),
        DictGetDefault(arguments, "intensity_level", 5),
        DictGetDefault(arguments, "monk_emphasis", TRUE))

impl_enhance_prompt_with_jazz ==
    /\ pc = "pending"
    /\ request.tool = "enhance_prompt_with_jazz"
    /\ response' = impl_enhance_prompt_with_jazz_result(request.arguments)
    /\ pc' = "idle"
    /\ UNCHANGED <<yaml_files, categorical_structure, intentionality_reasoning,
                   loads, request>>

impl_list_harmonic_foundations ==
    /\ pc = "pending"
    /\ request.tool = "list_harmonic_foundations"
    /\ response' = list_harmonic_foundations_result(EnhancerOlog)
    /\ pc' = "idle"
    /\ UNCHANGED <<yaml_files, categorical_structure, intentionality_reasoning,
                   loads, request>>

\* constructs an olog of its own, which reads the documents again
impl_get_harmonic_foundation_details ==
    /\ pc = "pending"
    /\ request.tool = "get_harmonic_foundation_details"
    /\ loads < MaxLoads
    /\ loads' = loads + 1
    /\ response' = get_harmonic_foundation_details_result(
                       JazzImprovisationOlog(yaml_files), request.arguments.foundation_name)
    /\ pc' = "idle"
    /\ UNCHANGED <<yaml_files, categorical_structure, intentionality_reasoning, request>>

\* constructs an olog of its own, which reads the documents again
impl_get_phase_specification ==
    /\ pc = "pending"
    /\ request.tool = "get_phase_specification"
    /\ loads < MaxLoads
    /\ loads' = loads + 1
    /\ response' = get_phase_specification_result(
                       JazzImprovisationOlog(yaml_files), request.arguments.phase_name)
    /\ pc' = "idle"
    /\ UNCHANGED <<yaml_files, categorical_structure, intentionality_reasoning, request>>

\* arguments.get("harmonic_foundation", "Round Midnight")
impl_compare_phases_intensity ==
    /\ pc = "pending"
    /\ request.tool = "compare_phases_intensity"
    /\ response' = compare_phases_intensity_result(
                       EnhancerOlog,
                       DictGetDefault(request.arguments, "harmonic_foundation", "Round Midnight"))
    /\ pc' = "idle"
    /\ UNCHANGED <<yaml_files, categorical_structure, intentionality_reasoning,
                   loads, request>>

\* constructs an olog of its own, which reads the documents again
impl_get_monk_principles ==
    /\ pc = "pending"
    /\ request.tool = "get_monk_principles"
    /\ loads < MaxLoads
    /\ loads' = loads + 1
    /\ response' = get_monk_principles_result(JazzImprovisationOlog(yaml_files))
    /\ pc' = "idle"
    /\ UNCHANGED <<yaml_files, categorical_structure, intentionality_reasoning, request>>

Next ==
    \/ \E tool \in ToolNames : \E arguments \in RequiredArguments(tool) :
            host_call(tool, arguments)
    \/ \E key \in {"harmonic_foundation", "solo_phase", "intensity_level", "monk_emphasis"} :
            \E value \in PropertyValues(key) : host_argument(key, value)
    \/ impl_enhance_prompt_with_jazz
    \/ impl_list_harmonic_foundations
    \/ impl_get_harmonic_foundation_details
    \/ impl_get_phase_specification
    \/ impl_compare_phases_intensity
    \/ impl_get_monk_principles

Spec == Init /\ [][Next]_vars

(***************************************************************************)
(* validate_intensity_profile called on its own, with any dict: the keys   *)
(* may be missing (the method reads each with a default) and the values    *)
(* lie on both sides of every threshold.  beat_relationship is in tenths.  *)
(***************************************************************************)
IntensityDictKeys == {"note_density", "rest_space", "harmonic_complexity",
                      "melodic_singularity", "beat_relationship"}

IntensityDictValues(key) ==
    CASE key = "note_density" -> {6, 7, 8}
      [] key = "rest_space" -> {3, 5, 6}
      [] key = "harmonic_complexity" -> {3, 4, 7, 8}
      [] key = "melodic_singularity" -> {5, 6}
      [] key = "beat_relationship" -> {70, 71, 80}

\* a caller starts an intensity dict
validate_call ==
    /\ pc = "idle"
    /\ pc' = "pending"
    /\ request' = [tool |-> "validate_intensity_profile", arguments |-> NoArguments]
    /\ response' = None
    /\ UNCHANGED <<yaml_files, categorical_structure, intentionality_reasoning, loads>>

\* the caller sets one key of the dict
validate_entry(key, value) ==
    /\ pc = "pending"
    /\ request.tool = "validate_intensity_profile"
    /\ key \notin DOMAIN request.arguments
    /\ request' = [request EXCEPT !.arguments = (key :> value) @@ request.arguments]
    /\ UNCHANGED <<yaml_files, categorical_structure, intentionality_reasoning,
                   loads, pc, response>>

\* olog.validate_intensity_profile(intensity_dict)
validate_return ==
    /\ pc = "pending"
    /\ request.tool = "validate_intensity_profile"
    /\ response' = validate_intensity_profile(EnhancerOlog, request.arguments)
    /\ pc' = "idle"
    /\ UNCHANGED <<yaml_files, categorical_structure, intentionality_reasoning,
                   loads, request>>

ValidateNext ==
    \/ validate_call
    \/ \E key \in IntensityDictKeys : \E value \in IntensityDictValues(key) :
            validate_entry(key, value)
    \/ validate_return

ValidateSpec == Init /\ [][ValidateNext]_vars

(***************************************************************************)
(* What the properties below read off a state.                             *)
(***************************************************************************)
\* the last call has been handled and it was a call of this tool
Handled(tool) == pc = "idle" /\ request.tool = tool

EnhanceHandled == Handled("enhance_prompt_with_jazz")

\* the arguments of the handled enhance call, the omitted ones at their defaults
ArgPrompt == request.arguments.base_prompt

ArgFoundation == DictGetDefault(request.arguments, "harmonic_foundation", "Round Midnight")

ArgPhase == DictGetDefault(request.arguments, "solo_phase", K_development)

ArgLevel == DictGetDefault(request.arguments, "intensity_level", 5)

ArgEmphasis == DictGetDefault(request.arguments, "monk_emphasis", TRUE)

ClampedLevel == max(1, min(10, ArgLevel))

CatalogEntries ==
    {categorical_structure.types.harmonic_foundation.instances[i] :
        i \in 1..Len(categorical_structure.types.harmonic_foundation.instances)}

CatalogNames == {f.name : f \in CatalogEntries}

CatalogEntry(name) == CHOOSE f \in CatalogEntries : f.name = name

\* the numeric severity of the foundation the enhance call resolves to
ArgSeverity ==
    ComplexityMap[CatalogEntry(IF ArgFoundation \in CatalogNames
                               THEN ArgFoundation ELSE "Round Midnight").complexity]

IntegerFields == {"note_density", "rhythmic_subdivision", "harmonic_complexity",
                  "melodic_singularity", "rest_space"}

ResultFields == {"original_prompt", "enhanced_prompt", "harmonic_foundation", "solo_phase",
                 "intensity_profile", "sensory_intention", "visual_analog", "how_it_feels",
                 "monk_principles", "coherence_note", "temporal_note"}

(***************************************************************************)
(* C1.  The claim as stated: every numeric field of the returned           *)
(* intensity_profile, beat_relationship included, is an integer in         *)
(* [1,10].  (beat_relationship is held in tenths: an integer in [1,10] is  *)
(* a multiple of 10 between 10 and 100.)                                   *)
(***************************************************************************)
C1_EveryFieldIntegerInRange ==
    EnhanceHandled =>
        /\ ~IsRaised(response)
        /\ \A k \in IntegerFields : response.intensity_profile[k] \in 1..10
        /\ response.intensity_profile.beat_relationship \in {10 * n : n \in 1..10}

(***************************************************************************)
(* C1, amended.  For every input of enhance_prompt_with_jazz the fields    *)
(* note_density, rhythmic_subdivision, harmonic_complexity,                *)
(* melodic_singularity and rest_space of the returned profile are integers *)
(* in [1,10]; beat_relationship is a number in [1,10], namely 5 + 0.3 L or *)
(* 7 + 0.2 L for the clamped level L, which need not be an integer.        *)
(***************************************************************************)
C1_ProfileFieldsInRange ==
    EnhanceHandled =>
        /\ ~IsRaised(response)
        /\ \A k \in IntegerFields : response.intensity_profile[k] \in 1..10
        /\ response.intensity_profile.beat_relationship \in 10..100
        /\ response.intensity_profile.beat_relationship =
                IF ArgEmphasis THEN 70 + 2 * ClampedLevel ELSE 50 + 3 * ClampedLevel

\* an out-of-range level and an unrecognized phase, with a beat_relationship of 5.3
C1_Witness ==
    /\ EnhanceHandled
    /\ ArgLevel < 1
    /\ ArgPhase = K_bridge
    /\ ~ArgEmphasis
    /\ response.intensity_profile.beat_relationship = 53

(***************************************************************************)
(* C2.  compare_phases_intensity returns, for every foundation name, also  *)
(* one that is not in the catalog, a mapping with a profile for statement, *)
(* development and resolution; it never fails.                             *)
(***************************************************************************)
C2_CompareNeverFails ==
    Handled("compare_phases_intensity") =>
        /\ ~IsRaised(response)
        /\ DOMAIN response.phase_comparison = {K_statement, K_development, K_resolution}

(***************************************************************************)
(* C3.  enhance_prompt_with_jazz never fails on the foundation name: the   *)
(* result's harmonic_foundation is the given name when the catalog has it, *)
(* and otherwise "Round Midnight", with the profile computed from Round    *)
(* Midnight's complexity class.                                            *)
(***************************************************************************)
C3_FoundationFallback ==
    EnhanceHandled =>
        /\ ~IsRaised(response)
        /\ ArgFoundation \in CatalogNames => response.harmonic_foundation = ArgFoundation
        /\ ArgFoundation \notin CatalogNames =>
            /\ response.harmonic_foundation = "Round Midnight"
            /\ response.intensity_profile =
                    _build_intensity_profile(
                        EnhancerOlog, ArgPhase, ClampedLevel,
                        ComplexityMap[CatalogEntry("Round Midnight").complexity],
                        ArgEmphasis)

C3_Witness ==
    /\ EnhanceHandled
    /\ ArgFoundation = "Blue Monk"
    /\ response.harmonic_foundation = "Round Midnight"
    /\ ArgEmphasis
    /\ ArgPhase = K_resolution
    /\ response.intensity_profile.harmonic_complexity = 7

(***************************************************************************)
(* C4.  The detail lookups report a miss as a value and never raise:       *)
(* get_harmonic_foundation_details returns the record of the catalog entry *)
(* whose name is exactly the given one, and otherwise a result with only   *)
(* an error field; get_phase_specification returns the record of the phase *)
(* the name resolves to, and otherwise a result with only an error field.  *)
(***************************************************************************)
\* the key of the phase document a name stands for, or None: a key itself, a
\* simple phase name in any case, or a key without its "phase_" prefix
PhaseKeyOf(name) ==
    IF startswith(name, K_phase_)
    THEN (IF name \in DOMAIN intentionality_reasoning THEN name ELSE None)
    ELSE IF lower(name) = K_statement THEN K_phase_1_statement
    ELSE IF lower(name) = K_development THEN K_phase_2_development
    ELSE IF lower(name) = K_resolution THEN K_phase_3_resolution
    ELSE IF K_phase_ \o lower(name) \in DOMAIN intentionality_reasoning
    THEN K_phase_ \o lower(name)
    ELSE None

C4_LookupMissIsAValue ==
    /\ Handled("get_harmonic_foundation_details") =>
        LET name == request.arguments.foundation_name
        IN  IF name \in CatalogNames
            THEN response = [name |-> name,
                             complexity |-> CatalogEntry(name).complexity,
                             key_center |-> CatalogEntry(name).key_center,
                             characteristic |-> CatalogEntry(name).characteristic,
                             monk_essence |-> CatalogEntry(name).monk_essence]
            ELSE DOMAIN response = {"error"}
    /\ Handled("get_phase_specification") =>
        LET name == request.arguments.phase_name
            key == PhaseKeyOf(name)
        IN  IF key # None
            THEN response =
                    [phase |-> name,
                     narrative_role |-> intentionality_reasoning[key].narrative_role,
                     sensory_intention |-> intentionality_reasoning[key].sensory_intention,
                     what_happens_musically |->
                        intentionality_reasoning[key].what_happens_musically]
            ELSE DOMAIN response = {"error"}

\* a name that differs from a catalog name only in case is a miss
C4_Witness ==
    /\ Handled("get_harmonic_foundation_details")
    /\ request.arguments.foundation_name = "round midnight"
    /\ DOMAIN response = {"error"}

(***************************************************************************)
(* C5.  An out-of-range intensity_level is silently clamped: the result    *)
(* for a level L is the result for max(1, min(10, L)) with the other       *)
(* arguments the same, and it has no error or warning field.               *)
(***************************************************************************)
C5_LevelSilentlyClamped ==
    EnhanceHandled =>
        /\ response = enhance_prompt_with_jazz_structure(
                          EnhancerOlog, ArgPrompt, ArgFoundation, ArgPhase,
                          max(1, min(10, ArgLevel)), ArgEmphasis)
        /\ DOMAIN response = ResultFields

C5_Witness ==
    /\ EnhanceHandled
    /\ ArgLevel > 10
    /\ ArgPhase = K_development
    /\ response.intensity_profile.note_density = 8
    /\ response.intensity_profile.melodic_singularity = 6

(***************************************************************************)
(* C6.  Enabling the emphasis never decreases rest_space: for every phase, *)
(* recognized or not, every level and foundation, rest_space with          *)
(* monk_emphasis is at least rest_space without it.                        *)
(***************************************************************************)
C6_EmphasisNeverLowersRest ==
    EnhanceHandled =>
        LET other == _build_intensity_profile(EnhancerOlog, ArgPhase, ClampedLevel,
                                              ArgSeverity, ~ArgEmphasis)
        IN  IF ArgEmphasis
            THEN response.intensity_profile.rest_space >= other.rest_space
            ELSE other.rest_space >= response.intensity_profile.rest_space

\* an unrecognized phase: rest_space 5 without the emphasis, 6 with it
C6_Witness ==
    /\ EnhanceHandled
    /\ ArgEmphasis
    /\ ArgPhase = K_bridge
    /\ response.intensity_profile.rest_space = 6
    /\ _build_intensity_profile(EnhancerOlog, ArgPhase, ClampedLevel,
                                ArgSeverity, FALSE).rest_space = 5

(***************************************************************************)
(* C7.  In the development phase note_density does not decrease with the   *)
(* intensity: for levels L1 < L2 in 1..10, the same emphasis and           *)
(* foundation, note_density(L2) >= note_density(L1).                       *)
(***************************************************************************)
C7_DevelopmentDensityMonotonic ==
    (EnhanceHandled /\ lower(ArgPhase) = K_development /\ ArgLevel \in 1..10) =>
        \A L1 \in 1..10 :
            L1 < ArgLevel =>
                _build_intensity_profile(EnhancerOlog, ArgPhase, L1,
                                         ArgSeverity, ArgEmphasis).note_density
                    <= response.intensity_profile.note_density

C7_Witness ==
    /\ EnhanceHandled
    /\ ArgPhase = K_development
    /\ ArgLevel = 10
    /\ response.intensity_profile.note_density = 8
    /\ _build_intensity_profile(EnhancerOlog, ArgPhase, 1,
                                ArgSeverity, ArgEmphasis).note_density = 5

(***************************************************************************)
(* C8.  For every level, every catalog foundation and either emphasis, the *)
(* harmonic_complexity of the resolution phase does not exceed that of the *)
(* development phase for the same level, foundation and emphasis.          *)
(***************************************************************************)
C8_ResolutionBelowDevelopment ==
    (EnhanceHandled /\ lower(ArgPhase) = K_resolution /\ ArgFoundation \in CatalogNames) =>
        response.intensity_profile.harmonic_complexity
            <= _build_intensity_profile(EnhancerOlog, K_development, ClampedLevel,
                                        ArgSeverity, ArgEmphasis).harmonic_complexity

\* the emphasis overrides both phases with 0.8 x 9 = 7.2: equal values
C8_Witness ==
    /\ EnhanceHandled
    /\ ArgPhase = K_resolution
    /\ ArgFoundation = "Round Midnight"
    /\ ArgEmphasis
    /\ ArgLevel = 9
    /\ response.intensity_profile.harmonic_complexity = 7
    /\ _build_intensity_profile(EnhancerOlog, K_development, 9,
                                ArgSeverity, TRUE).harmonic_complexity = 7

(***************************************************************************)
(* C9.  The claim as stated: enhance("a bottle of hot sauce", "Round       *)
(* Midnight", "development", 5, true) returns the prompt as                *)
(* original_prompt, solo_phase "development", note_density 7 and           *)
(* rest_space 8.                                                           *)
(***************************************************************************)
C9_Scenario ==
    /\ EnhanceHandled
    /\ ArgPrompt = <<"a bottle of hot sauce">>
    /\ ArgFoundation = "Round Midnight"
    /\ ArgPhase = K_development
    /\ ArgLevel = 5
    /\ ArgEmphasis

C9_DensitySeven ==
    C9_Scenario =>
        /\ response.original_prompt = <<"a bottle of hot sauce">>
        /\ response.solo_phase = K_development
        /\ response.intensity_profile.note_density = 7
        /\ response.intensity_profile.rest_space = 8

(***************************************************************************)
(* C9, amended.  The same call returns the prompt as original_prompt,      *)
(* solo_phase "development", note_density 6 (5 + 0.3 x 5 = 6.5, and a half *)
(* is rounded to the even integer) and rest_space 8 (7.5 rounds to 8).     *)
(***************************************************************************)
C9_DensitySix ==
    C9_Scenario =>
        /\ response.original_prompt = <<"a bottle of hot sauce">>
        /\ response.solo_phase = K_development
        /\ response.intensity_profile.note_density = 6
        /\ response.intensity_profile.rest_space = 8

C9_Witness == C9_Scenario /\ response.intensity_profile.note_density = 6

(***************************************************************************)
(* C10.  The claim as stated: for phase "statement", intensity 5 and no    *)
(* emphasis the profile has note_density 3 and rest_space 6.               *)
(***************************************************************************)
C10_Scenario ==
    /\ EnhanceHandled
    /\ ArgPhase = K_statement
    /\ ArgLevel = 5
    /\ ~ArgEmphasis

C10_DensityThree ==
    C10_Scenario =>
        /\ response.intensity_profile.note_density = 3
        /\ response.intensity_profile.rest_space = 6

(***************************************************************************)
(* C10, amended.  For phase "statement", intensity 5 and no emphasis the   *)
(* profile has note_density 2 (2 + 0.1 x 5 = 2.5, and a half is rounded to *)
(* the even integer) and rest_space 6.                                     *)
(***************************************************************************)
C10_DensityTwo ==
    C10_Scenario =>
        /\ response.intensity_profile.note_density = 2
        /\ response.intensity_profile.rest_space = 6

C10_Witness ==
    /\ C10_Scenario
    /\ ArgFoundation = "Evidence"
    /\ response.intensity_profile.note_density = 2
    /\ response.intensity_profile.rest_space = 6

(***************************************************************************)
(* C11.  The two configuration sources are loaded exactly once, at the     *)
(* start of the process: no tool invocation loads them again, and the      *)
(* loaded catalogs stay what the load produced.                            *)
(***************************************************************************)
C11_LoadedExactlyOnce ==
    /\ loads = 1
    /\ EnhancerOlog = JazzImprovisationOlog(yaml_files)

(***************************************************************************)
(* C12.  Tool invocations are stateless: the result of every invocation is *)
(* a function of its tool and its arguments (and of the configuration      *)
(* files, which no invocation changes), whatever was invoked before it.    *)
(* Invocations do not interleave: call_tool has no await between its       *)
(* entry and its return, so the event loop runs each one to its end.       *)
(***************************************************************************)
C12_ResultOf(tool, arguments) ==
    LET olog == JazzImprovisationOlog(yaml_files)
    IN  CASE tool = "enhance_prompt_with_jazz" ->
                enhance_prompt_with_jazz_structure(
                    olog,
                    arguments.base_prompt,
                    DictGetDefault(arguments, "harmonic_foundation", "Round Midnight"),
                    DictGetDefault(arguments, "solo_phase", K_development),
                    DictGetDefault(arguments, "intensity_level", 5),
                    DictGetDefault(arguments, "monk_emphasis", TRUE))
          [] tool = "list_harmonic_foundations" -> list_harmonic_foundations_result(olog)
          [] tool = "get_harmonic_foundation_details" ->
                get_harmonic_foundation_details_result(olog, arguments.foundation_name)
          [] tool = "get_phase_specification" ->
                get_phase_specification_result(olog, arguments.phase_name)
          [] tool = "compare_phases_intensity" ->
                compare_phases_intensity_result(
                    olog, DictGetDefault(arguments, "harmonic_foundation", "Round Midnight"))
          [] tool = "get_monk_principles" -> get_monk_principles_result(olog)

SixDimensions == IntegerFields \cup {"beat_relationship"}

C13_CoherenceIsDescriptive ==
    EnhanceHandled =>
        /\ DOMAIN response = ResultFields
        /\ DOMAIN response.intensity_profile =
                SixDimensions \cup {"coherence_valid", "coherence_note"}
        /\ response.intensity_profile.coherence_valid \in BOOLEAN
        /\ \A k \in SixDimensions :
                response.intensity_profile[k] =
                    ClampedProfile(
                        ApplyMonkEmphasis(BaseProfile(ArgPhase, ClampedLevel),
                                          ArgSeverity, ArgEmphasis),
                        ClampedLevel, ArgEmphasis)[k]

C13_Witness ==
    /\ EnhanceHandled
    /\ response.intensity_profile.coherence_valid = FALSE
    /\ response.intensity_profile.harmonic_complexity = 2
    /\ response.enhanced_prompt # None
    /\ DOMAIN response = ResultFields

(***************************************************************************)
(* C14.  validate_intensity_profile tries the three threshold rules in     *)
(* order and the first failing rule wins: (false, density/rest message)    *)
(* when note_density > 6 and rest_space < 6; else (false,                  *)
(* harmonic/melodic message) when harmonic_complexity > 7 and              *)
(* melodic_singularity < 6; else (false, behind-the-beat message) when     *)
(* beat_relationship > 7 and harmonic_complexity < 4; else (true,          *)
(* "Intensity profile is coherent").  A dict that violates several rules   *)
(* gets the message of the lowest-numbered one only.  Checked under        *)
(* ValidateSpec.                                                           *)
(***************************************************************************)
ValidateHandled == Handled("validate_intensity_profile")

Rule1Violated ==
    /\ DictGetDefault(request.arguments, "note_density", 5) > 6
    /\ DictGetDefault(request.arguments, "rest_space", 5) < 6

Rule2Violated ==
    /\ DictGetDefault(request.arguments, "harmonic_complexity", 5) > 7
    /\ DictGetDefault(request.arguments, "melodic_singularity", 5) < 6

Rule3Violated ==
    /\ DictGetDefault(request.arguments, "beat_relationship", 50) > 70
    /\ DictGetDefault(request.arguments, "harmonic_complexity", 5) < 4

C14_FirstFailingRuleWins ==
    ValidateHandled =>
        /\ Rule1Violated =>
            response = <<FALSE, "High note density requires high rest space for legibility">>
        /\ ~Rule1Violated /\ Rule2Violated =>
            response = <<FALSE, "High harmonic complexity requires high melodic singularity">>
        /\ ~Rule1Violated /\ ~Rule2Violated /\ Rule3Violated =>
            response = <<FALSE, "Behind-the-beat playing needs harmonic complexity for anchor">>
        /\ ~Rule1Violated /\ ~Rule2Violated /\ ~Rule3Violated =>
            response = <<TRUE, "Intensity profile is coherent">>

\* note_density 8 and rest_space 3, in a dict that violates rule 3 as well
C14_Witness ==
    /\ ValidateHandled
    /\ DictGetDefault(request.arguments, "note_density", 5) = 8
    /\ DictGetDefault(request.arguments, "rest_space", 5) = 3
    /\ Rule3Violated
    /\ response = <<FALSE, "High note density requires high rest space for legibility">>

(***************************************************************************)
(* C15.  Every development-phase enhancement is coherent: for solo_phase   *)
(* "development", every intensity level, every foundation and either       *)
(* emphasis value, the returned profile has coherence_valid = true.        *)
(***************************************************************************)
C15_DevelopmentIsCoherent ==
    (EnhanceHandled /\ ArgPhase = K_development) =>
        response.intensity_profile.coherence_valid = TRUE

\* a dense development profile: rule 1 is passed on its rest_space
C15_Witness ==
    /\ EnhanceHandled
    /\ ArgPhase = K_development
    /\ ~ArgEmphasis
    /\ response.intensity_profile.note_density = 8
    /\ response.intensity_profile.rest_space = 8
    /\ response.intensity_profile.coherence_valid = TRUE

(***************************************************************************)
(* C16.  The claim as stated: for a phase string that case-folds to none   *)
(* of statement, development, resolution, enhance_prompt_with_jazz returns *)
(* the same intensity_profile and the same sensory_intention,              *)
(* visual_analog and how_it_feels as for solo_phase "development" with the *)
(* same level, foundation and emphasis.                                    *)
(***************************************************************************)
Unrecognized(phase) == lower(phase) \notin {K_statement, K_development, K_resolution}

\* the result of the same call with solo_phase "development"
AsDevelopment ==
    enhance_prompt_with_jazz_structure(EnhancerOlog, ArgPrompt, ArgFoundation,
                                       K_development, ArgLevel, ArgEmphasis)

FormulaComplexity == BaseProfile(ArgPhase, ClampedLevel).harmonic_complexity_actual

C18_EmphasisOverride ==
    (EnhanceHandled /\ ArgEmphasis) =>
        response.intensity_profile.harmonic_complexity =
            IF FormulaComplexity < ArgSeverity * 10
            THEN round(ArgSeverity * 8)
            ELSE round(FormulaComplexity)

C18_Witness ==
    /\ EnhanceHandled
    /\ ArgEmphasis
    /\ ArgPhase = K_development
    /\ ArgSeverity = 9
    /\ FormulaComplexity < ArgSeverity * 10
    /\ response.intensity_profile.harmonic_complexity < round(FormulaComplexity)
    /\ response.intensity_profile.harmonic_complexity <
            _build_intensity_profile(EnhancerOlog, ArgPhase, ClampedLevel,
                                     ArgSeverity, FALSE).harmonic_complexity

(***************************************************************************)
(* C19.  beat_relationship is returned as 5 + 0.3 L without the emphasis   *)
(* and 7 + 0.2 L with it (L the clamped level), neither rounded nor        *)
(* clamped, and this unrounded value is the one rule 3 compares with 7.    *)
(* (In tenths: 50 + 3 L and 70 + 2 L, against 70.  The program computes    *)
(* the value in double precision, which differs from the decimal value by  *)
(* a rounding error of the last bit for some L, never across 7 or onto an  *)
(* integer.)                                                               *)
(***************************************************************************)
C19_BeatRelationshipUnrounded ==
    EnhanceHandled =>
        /\ response.intensity_profile.beat_relationship =
                IF ArgEmphasis THEN 70 + 2 * ClampedLevel ELSE 50 + 3 * ClampedLevel
        /\ response.intensity_profile.coherence_valid =
                ~(/\ (IF ArgEmphasis THEN 70 + 2 * ClampedLevel ELSE 50 + 3 * ClampedLevel) > 70
                  /\ response.intensity_profile.harmonic_complexity < 4)

\* 7.1 is above 7 and its rounding is not: rule 3 fires on the unrounded value
C19_Witness ==
    /\ EnhanceHandled
    /\ ~ArgEmphasis
    /\ ArgLevel = 7
    /\ response.intensity_profile.beat_relationship = 71
    /\ round(response.intensity_profile.beat_relationship) = 7
    /\ response.intensity_profile.harmonic_complexity < 4
    /\ response.intensity_profile.coherence_valid = FALSE

(***************************************************************************)
(* C20.  Rules 1 and 2 never fire on a profile the enhancer builds: in     *)
(* every result of enhance_prompt_with_jazz and compare_phases_intensity   *)
(* the profile never has note_density > 6 with rest_space < 6 and never    *)
(* has melodic_singularity < 6; whenever coherence_valid is false the      *)
(* coherence_note is the message of rule 3.                                *)
(***************************************************************************)
OnlyRuleThree(profile) ==
    /\ ~(profile.note_density > 6 /\ profile.rest_space < 6)
    /\ profile.melodic_singularity >= 6
    /\ ~profile.coherence_valid =>
            profile.coherence_note =
                "Behind-the-beat playing needs harmonic complexity for anchor"

\* the profiles compare_phases_intensity builds, before the server's projection
ComparedProfiles == compare_phases_intensity(EnhancerOlog, ArgFoundation)

C20_OnlyRuleThreeFires ==
    /\ EnhanceHandled => OnlyRuleThree(response.intensity_profile)
    /\ (Handled("compare_phases_intensity") /\ ~IsRaised(response)) =>
            \A phase \in DOMAIN response.phase_comparison :
                /\ OnlyRuleThree(ComparedProfiles[phase])
                /\ response.phase_comparison[phase] = ProfileSubset(ComparedProfiles[phase])

C20_Witness ==
    /\ Handled("compare_phases_intensity")
    /\ ~IsRaised(response)
    /\ response.phase_comparison[K_statement].harmonic_complexity < 4
    /\ ComparedProfiles[K_statement].coherence_valid = FALSE
    /\ ComparedProfiles[K_statement].coherence_note =
            "Behind-the-beat playing needs harmonic complexity for anchor"

(***************************************************************************)
(* C21.  For every foundation f of the catalog and every phase p of        *)
(* statement, development, resolution, the entry for p in the result of    *)
(* compare_phases_intensity(f) is the five fields note_density,            *)
(* rhythmic_subdivision, harmonic_complexity, melodic_singularity,         *)
(* rest_space of the intensity_profile that enhance_prompt_with_jazz       *)
(* returns for foundation f, phase p, level 5 and the emphasis on.  Read   *)
(* off both calls: the handled comparison against the enhancement of each  *)
(* phase, and the handled enhancement against the comparison's entry.      *)
(***************************************************************************)
ThreePhases == {get_all_phases[i] : i \in 1..Len(get_all_phases)}

\* the profile enhance_prompt_with_jazz returns for this foundation and phase
EnhancedAtFive(phase) ==
    enhance_prompt_with_jazz_structure(EnhancerOlog, <<"test">>, ArgFoundation,
                                       phase, 5, TRUE).intensity_profile

C21_CompareEqualsEnhance ==
    /\ (Handled("compare_phases_intensity") /\ ArgFoundation \in CatalogNames) =>
            /\ ~IsRaised(response)
            /\ DOMAIN response.phase_comparison = ThreePhases
            /\ \A phase \in ThreePhases :
                    /\ DOMAIN response.phase_comparison[phase] = IntegerFields
                    /\ \A k \in IntegerFields :
                            response.phase_comparison[phase][k] = EnhancedAtFive(phase)[k]
    /\ (/\ EnhanceHandled
        /\ ArgFoundation \in CatalogNames
        /\ ArgPhase \in ThreePhases
        /\ ArgLevel = 5
        /\ ArgEmphasis) =>
            \A k \in IntegerFields :
                response.intensity_profile[k] =
                    compare_phases_intensity_result(EnhancerOlog, ArgFoundation)
                        .phase_comparison[ArgPhase][k]

C21_Witness ==
    /\ Handled("compare_phases_intensity")
    /\ ArgFoundation = "Evidence"
    /\ ~IsRaised(response)
    /\ response.phase_comparison[K_development].harmonic_complexity = 6
    /\ response.phase_comparison[K_resolution].rest_space = 7
    /\ EnhancedAtFive(K_resolution).rest_space = 7

=============================================================================
